---------------------------- MODULE Spec2Model ----------------------------
(***************************************************************************)
(* Model of the react-amap-binding components AMap and Marker: the props   *)
(* to SDK-call diffing, the asynchronous script loading of AMap.initAMap,  *)
(* the event listener bridging and the mount / update / unmount lifecycle. *)
(* The AMap JavaScript SDK (AMap.Map, AMap.Marker, AMap.Pixel, ...) is the *)
(* environment: its instances are modelled by the calls they receive.      *)
(***************************************************************************)
EXTENDS FiniteSets, Integers, Sequences, TLC

\* Number of parent re-renders (prop updates) explored in one behaviour.
MaxUpdates == 1

\* Number of toggles of the visible prop of the Marker explored.
MaxToggles == 2

(***************************************************************************)
(* JavaScript values.  Every value is a record [t, id, n, f]: t is the     *)
(* type or class, id the object identity (0 for primitives), n the payload *)
(* of a primitive and f the tuple of own enumerable fields of an object.   *)
(* Two objects are the same object (===) iff the records are equal; two    *)
(* distinct objects with the same contents differ in id only.              *)
(***************************************************************************)
Undef == [t |-> "undefined", id |-> 0, n |-> 0, f |-> <<>>]

Null == [t |-> "null", id |-> 0, n |-> 0, f |-> <<>>]

Prim(x) == [t |-> "prim", id |-> 0, n |-> x, f |-> <<>>]

Bool(b) == [t |-> "boolean", id |-> 0, n |-> IF b THEN 1 ELSE 0, f |-> <<>>]

Func(i) == [t |-> "function", id |-> i, n |-> 0, f |-> <<>>]

\* One own enumerable property of an object.
Entry(key, v) == [k |-> key, v |-> v]

\* [e1, e2, ...]: the keys of an array are its indices.
Arr(i, elems) ==
  [t |-> "Array", id |-> i, n |-> 0,
   f |-> [j \in 1..Len(elems) |-> Entry(ToString(j - 1), elems[j])]]

\* {k1: v1, k2: v2, ...}
Obj(i, entries) == [t |-> "Object", id |-> i, n |-> 0, f |-> entries]

\* o[key] of an object value: undefined when the key is absent.
Field(o, key) ==
  IF \E j \in 1..Len(o.f) : o.f[j].k = key
    THEN o.f[CHOOSE j \in 1..Len(o.f) : o.f[j].k = key].v
    ELSE Undef

\* {...o, [key]: v}
WithField(i, o, key, v) ==
  Obj(i, IF \E j \in 1..Len(o.f) : o.f[j].k = key
           THEN [j \in 1..Len(o.f) |-> IF o.f[j].k = key THEN Entry(key, v) ELSE o.f[j]]
           ELSE Append(o.f, Entry(key, v)))

\* new window.AMap.Pixel(x, y)
Pixel(i, x, y) ==
  [t |-> "Pixel", id |-> i, n |-> 0, f |-> <<Entry("x", x), Entry("y", y)>>]

\* new window.AMap.Bounds(southWest, northEast)
Bounds(i, sw, ne) ==
  [t |-> "Bounds", id |-> i, n |-> 0,
   f |-> <<Entry("southwest", sw), Entry("northeast", ne)>>]

\* new window.AMap.Icon({image, imageOffset, imageSize, size})
Icon(i, image, imageOffset, imageSize, size) ==
  [t |-> "Icon", id |-> i, n |-> 0,
   f |-> <<Entry("image", image), Entry("imageOffset", imageOffset),
           Entry("imageSize", imageSize), Entry("size", size)>>]

\* The AMap.Map and AMap.Marker instances the components construct.
MapInstance == [t |-> "Map", id |-> 50, n |-> 0, f |-> <<>>]

MarkerInstance == [t |-> "Marker", id |-> 60, n |-> 0, f |-> <<>>]

\* The div element the ref callback stores in this.mapContainer.
ContainerDiv == [t |-> "HTMLDivElement", id |-> 40, n |-> 0, f |-> <<>>]

\* Identity of the object created in slot s by the g-th parse of props.
FreshId(g, s) == 100 + 10 * g + s

IsObject(v) == v.t \notin {"undefined", "null", "prim", "boolean", "function"}

\* JavaScript truthiness (no empty strings or NaN in the value domains).
Truthy(v) == /\ v.t \notin {"undefined", "null"}
             /\ v.t \in {"prim", "boolean"} => v.n # 0

\* Property read o[k]: undefined when the key is absent.
Get(o, k) == IF k \in DOMAIN o THEN o[k] ELSE Undef

\* utils/isNullVoid
isNullVoid(v) == v.t \in {"undefined", "null"}

\* utils/isShallowEqual: identical, or two objects with the same keys whose
\* values are identical key by key.
isShallowEqual(a, b) ==
  \/ a = b
  \/ /\ IsObject(a)
     /\ IsObject(b)
     /\ Len(a.f) = Len(b.f)
     /\ \A i \in 1..Len(a.f) : \E j \in 1..Len(b.f) : b.f[j] = a.f[i]

\* utils/cloneDeep(options, fields): the named fields are deep copied (new
\* objects with the same contents), the others are shared.
DeepCopy(v, g) == IF IsObject(v) THEN [v EXCEPT !.id = FreshId(g, 7)] ELSE v

NEED_DEEP_COPY_FIELDS == {"position"}

cloneDeep(options, fields, g) ==
  [k \in DOMAIN options |->
     IF k \in fields THEN DeepCopy(options[k], g) ELSE options[k]]

(***************************************************************************)
(* Event names.  A key is the tuple of its characters, so that             *)
(* key.substring(2).toLowerCase() is computed and not assumed.             *)
(***************************************************************************)
UpperCase ==
  <<"A","B","C","D","E","F","G","H","I","J","K","L","M",
    "N","O","P","Q","R","S","T","U","V","W","X","Y","Z">>

LowerCase ==
  <<"a","b","c","d","e","f","g","h","i","j","k","l","m",
    "n","o","p","q","r","s","t","u","v","w","x","y","z">>

toLowerCase(c) ==
  IF \E i \in 1..26 : UpperCase[i] = c
    THEN LowerCase[CHOOSE i \in 1..26 : UpperCase[i] = c]
    ELSE c

\* Mutant of EventName: the prefix dropped, the case kept.
EventNameKeepCase(key) == [i \in 1..(Len(key) - 2) |-> key[i + 2]]

\* key.substring(2).toLowerCase()
EventName(key) == [i \in 1..(Len(key) - 2) |-> toLowerCase(key[i + 2])]

MapEventKeys ==
  << <<"o","n","C","o","m","p","l","e","t","e">>,
     <<"o","n","C","l","i","c","k">>,
     <<"o","n","D","b","l","C","l","i","c","k">>,
     <<"o","n","M","a","p","M","o","v","e">>,
     <<"o","n","H","o","t","s","p","o","t","C","l","i","c","k">>,
     <<"o","n","H","o","t","s","p","o","t","O","v","e","r">>,
     <<"o","n","H","o","t","s","p","o","t","O","u","t">>,
     <<"o","n","M","o","v","e","S","t","a","r","t">>,
     <<"o","n","M","o","v","e","E","n","d">>,
     <<"o","n","Z","o","o","m","C","h","a","n","g","e">>,
     <<"o","n","Z","o","o","m","S","t","a","r","t">>,
     <<"o","n","Z","o","o","m","E","n","d">>,
     <<"o","n","M","o","u","s","e","M","o","v","e">>,
     <<"o","n","M","o","u","s","e","W","h","e","e","l">>,
     <<"o","n","M","o","u","s","e","O","v","e","r">>,
     <<"o","n","M","o","u","s","e","O","u","t">>,
     <<"o","n","M","o","u","s","e","U","p">>,
     <<"o","n","M","o","u","s","e","D","o","w","n">>,
     <<"o","n","R","i","g","h","t","C","l","i","c","k">>,
     <<"o","n","D","r","a","g","S","t","a","r","t">>,
     <<"o","n","D","r","a","g","g","i","n","g">>,
     <<"o","n","D","r","a","g","E","n","d">>,
     <<"o","n","R","e","s","i","z","e">>,
     <<"o","n","T","o","u","c","h","S","t","a","r","t">>,
     <<"o","n","T","o","u","c","h","M","o","v","e">>,
     <<"o","n","T","o","u","c","h","E","n","d">> >>

MarkerEventKeys ==
  << <<"o","n","C","l","i","c","k">>,
     <<"o","n","D","b","l","C","l","i","c","k">>,
     <<"o","n","R","i","g","h","t","C","l","i","c","k">>,
     <<"o","n","M","o","u","s","e","M","o","v","e">>,
     <<"o","n","M","o","u","s","e","O","v","e","r">>,
     <<"o","n","M","o","u","s","e","O","u","t">>,
     <<"o","n","M","o","u","s","e","D","o","w","n">>,
     <<"o","n","M","o","u","s","e","U","p">>,
     <<"o","n","D","r","a","g","S","t","a","r","t">>,
     <<"o","n","D","r","a","g","g","i","n","g">>,
     <<"o","n","D","r","a","g","E","n","d">>,
     <<"o","n","M","o","v","i","n","g">>,
     <<"o","n","M","o","v","e","E","n","d">>,
     <<"o","n","M","o","v","e","A","l","o","n","g">>,
     <<"o","n","T","o","u","c","h","S","t","a","r","t">>,
     <<"o","n","T","o","u","c","h","M","o","v","e">>,
     <<"o","n","T","o","u","c","h","E","n","d">> >>

MapCallbackProps ==
  {"onComplete", "onClick", "onDblClick", "onMapMove", "onHotspotClick", "onHotspotOver", "onHotspotOut", "onMoveStart", "onMoveEnd", "onZoomChange", "onZoomStart", "onZoomEnd", "onMouseMove", "onMouseWheel", "onMouseOver", "onMouseOut", "onMouseUp", "onMouseDown", "onRightClick", "onDragStart", "onDragging", "onDragEnd", "onResize", "onTouchStart", "onTouchMove", "onTouchEnd"}
MarkerCallbackProps ==
  {"onComplete", "onClick", "onDblClick", "onRightClick", "onMouseMove", "onMouseOver", "onMouseOut", "onMouseDown", "onMouseUp", "onDragStart", "onDragging", "onDragEnd", "onMoving", "onMoveEnd", "onMoveAlong", "onTouchStart", "onTouchMove", "onTouchEnd"}

(***************************************************************************)
(* Props.  A props or options object is a function from its keys (strings) *)
(* to values; a key given as undefined is modelled as an absent key.       *)
(***************************************************************************)
SetProp(p, key, v) ==
  IF v = Undef
    THEN [x \in DOMAIN p \ {key} |-> p[x]]
    ELSE [x \in DOMAIN p \cup {key} |-> IF x = key THEN v ELSE p[x]]

\* AMap.defaultProps, plus the required appKey and the children.
DefaultMapProps ==
  [appKey |-> Prim(1), children |-> Prim(1), locaVersion |-> Prim(1),
   protocol |-> Prim(1), version |-> Prim(1), uiVersion |-> Prim(1)]

\* Marker.defaultProps
DefaultMarkerProps == [visible |-> Bool(TRUE)]

\* The props AMap.parseMapOptions destructures away before the rest spread.
MapSelfDefinedProps ==
  {"appKey", "children", "locaVersion", "protocol", "uiVersion", "version"}

\* The props the AMap.Map setters of componentDidUpdate follow.
TrackedMapOptions ==
  {"zoom", "labelzIndex", "center", "city", "bounds", "lang", "rotation", "status",
   "defaultCursor", "mapStyle", "features", "defaultLayer", "pitch"}

\* The props the AMap.Marker setters of shouldComponentUpdate follow.
TrackedMarkerOptions ==
  {"anchor", "offset", "animation", "clickable", "position", "angle", "label",
   "zIndex", "icon", "draggable", "cursor", "content", "title", "shadow", "shape",
   "extData"}

SouthWest == Arr(11, <<Prim(1), Prim(2)>>)

NorthEast == Arr(12, <<Prim(3), Prim(4)>>)

\* Values a parent may pass for a prop of AMap.  Objects 1 and 2, 4 and 5,
\* 8 and 9 are distinct objects with the same contents (a literal evaluated
\* again on a re-render).  An AMap.Bounds instance needs the loaded library.
MapPropValues(key, libLoaded) ==
  CASE key = "zoom" -> {Undef, Prim(1), Prim(2)}
    [] key = "center" ->
         {Undef, Arr(1, <<Prim(1), Prim(2)>>), Arr(2, <<Prim(1), Prim(2)>>),
          Arr(3, <<Prim(5), Prim(2)>>)}
    [] key = "status" ->
         {Undef, Obj(4, <<Entry("dragEnable", Bool(FALSE))>>),
          Obj(5, <<Entry("dragEnable", Bool(FALSE))>>)}
    [] key = "features" -> {Undef, Arr(6, <<Prim(1)>>), Arr(7, <<Prim(1), Prim(2)>>)}
    [] key = "bounds" ->
         {Undef, Arr(8, <<SouthWest, NorthEast>>), Arr(9, <<SouthWest, NorthEast>>)}
         \cup (IF libLoaded THEN {Bounds(13, SouthWest, NorthEast)} ELSE {})
    [] key = "onClick" -> {Undef, Func(1)}
    [] OTHER -> {Undef, Prim(1)}

\* The props of AMap a parent re-render may change.
MapPropKeys == TrackedMapOptions \cup {"onClick", "proxyUrl"}

\* Values a parent may pass for a prop of Marker.
MarkerPropValues(key, libLoaded) ==
  CASE key = "position" ->
         {Arr(21, <<Prim(1), Prim(2)>>), Arr(22, <<Prim(1), Prim(2)>>),
          Arr(23, <<Prim(5), Prim(2)>>)}
    [] key = "offset" ->
         {Undef, Arr(24, <<Prim(1), Prim(1)>>)}
         \cup (IF libLoaded THEN {Pixel(25, Prim(1), Prim(1))} ELSE {})
    [] key = "label" ->
         {Undef, Null, Obj(26, <<Entry("content", Prim(1))>>),
          Obj(27, <<Entry("content", Prim(1))>>),
          Obj(28, <<Entry("content", Prim(1)),
                    Entry("offset", Arr(29, <<Prim(1), Prim(1)>>))>>)}
    [] key = "icon" ->
         {Undef, Null,
          Obj(30, <<Entry("image", Prim(1)), Entry("size", Prim(2))>>)}
         \cup (IF libLoaded
                 THEN {Icon(31, Prim(1), Pixel(32, Prim(0), Prim(0)), Undef, Undef)}
                 ELSE {})
    [] key \in {"shadow", "shape", "extData"} -> {Undef, Obj(33, <<Entry("a", Prim(1))>>)}
    [] key = "onClick" -> {Undef, Func(2)}
    [] OTHER -> {Undef, Prim(1)}

\* The props of Marker a parent re-render may change.
MarkerPropKeys == TrackedMarkerOptions \cup {"onClick"}

(***************************************************************************)
(* AMap.parseMapOptions(props); libLoaded is window.AMap !== void 0.       *)
(***************************************************************************)
\* Mutant of BoundsPropOf: props.bounds memorised without the library check.
BoundsPropOfEager(bounds, libLoaded) == bounds

\* The boundsProp entry: memorises props.bounds once the library is loaded.
BoundsPropOf(bounds, libLoaded) == IF ~libLoaded THEN Undef ELSE bounds

parseMapOptions(props, libLoaded, g) ==
  LET rest == DOMAIN props \ (MapSelfDefinedProps \cup MapCallbackProps)
      bounds == IF "bounds" \in rest THEN props["bounds"] ELSE Undef
  IN [key \in rest \cup {"bounds", "boundsProp"} |->
        IF key = "bounds"
          THEN IF ~libLoaded THEN Undef
               ELSE IF bounds.t = "Bounds" THEN bounds
               ELSE IF bounds.t = "Array"
                 THEN Bounds(FreshId(g, 1), Field(bounds, "0"), Field(bounds, "1"))
               ELSE bounds
        ELSE IF key = "boundsProp"
          THEN BoundsPropOf(bounds, libLoaded)
        ELSE props[key]]

(***************************************************************************)
(* Marker.parseMarkerOptions(props)                                        *)
(***************************************************************************)
\* The three places that turn an optional [x, y] into an AMap.Pixel.
ToPixel(v, i, dx, dy) ==
  IF v.t = "Pixel" THEN v
  ELSE IF v.t = "Array" THEN Pixel(i, Field(v, "0"), Field(v, "1"))
  ELSE Pixel(i, Prim(dx), Prim(dy))

parseMarkerOptions(props, g) ==
  LET rest == DOMAIN props \ MarkerCallbackProps
      icon == IF "icon" \in rest THEN props["icon"] ELSE Undef
      \* label = {} : the default applies to undefined, not to null
      label == IF "label" \in rest /\ props["label"] # Undef
                 THEN props["label"]
                 ELSE Obj(FreshId(g, 2), <<>>)
      offset == IF "offset" \in rest THEN props["offset"] ELSE Undef
  IN [key \in rest \cup {"icon", "label", "offset"} |->
        IF key = "icon"
          THEN IF isNullVoid(icon) THEN Null
               ELSE IF icon.t = "Icon" THEN icon
               ELSE Icon(FreshId(g, 3), Field(icon, "image"),
                         ToPixel(Field(icon, "imageOffset"), FreshId(g, 4), 0, 0),
                         Field(icon, "imageSize"), Field(icon, "size"))
        ELSE IF key = "label"
          THEN IF isNullVoid(label) THEN Null
               ELSE WithField(FreshId(g, 5), label, "offset",
                              ToPixel(Field(label, "offset"), FreshId(g, 6), 0, 0))
        ELSE IF key = "offset"
          THEN ToPixel(offset, FreshId(g, 8), -10, -34)
        ELSE props[key]]

(***************************************************************************)
(* utils/instanceEventHandler.  The listeners of an SDK instance and the   *)
(* eventCBList of a component are sequences of [eventName, handler].       *)
(***************************************************************************)
\* createEventCallback(name, instance).bind(component)
createEventCallback(key, instance, component) ==
  [name |-> key, instance |-> instance, component |-> component]

\* AMap.parseEvents / Marker.parseEvents: the callbacks in key order.
parseEvents(keys, instance, component) ==
  [i \in 1..Len(keys) |->
     [key |-> keys[i], handler |-> createEventCallback(keys[i], instance, component)]]

\* The {eventName, handler} pairs bindInstanceEvent pushes, in key order.
BoundPairs(eventCallbacks) ==
  [i \in 1..Len(eventCallbacks) |->
     [eventName |-> EventName(eventCallbacks[i].key),
      handler |-> eventCallbacks[i].handler]]

\* bindInstanceEvent: instance.on(eventName, handler) for every key, and the
\* pair pushed onto eventCBList.
bindInstanceEvent(listeners, eventCallbacks, eventCBList) ==
  [listeners |-> listeners \o BoundPairs(eventCallbacks),
   eventCBList |-> eventCBList \o BoundPairs(eventCallbacks)]

\* instance.off(eventName, handler)
Off(listeners, eventName, handler) ==
  SelectSeq(listeners, LAMBDA l : ~(l.eventName = eventName /\ l.handler = handler))

\* removeInstanceEvent: instance.off for every recorded pair.
RECURSIVE removeInstanceEvent(_, _)
removeInstanceEvent(listeners, eventCBList) ==
  IF eventCBList = <<>>
    THEN listeners
    ELSE removeInstanceEvent(
           Off(listeners, Head(eventCBList).eventName, Head(eventCBList).handler),
           Tail(eventCBList))

(***************************************************************************)
(* State.                                                                  *)
(***************************************************************************)
VARIABLES
  \* the page
  windowAMap,          \* window.AMap !== void 0
  amapScript,          \* the three script tags: "none", "requested", "loaded",
                       \* "failed"
  uiScript,
  locaScript,
  initAMapUICalls,     \* calls of window.initAMapUI()
  \* the parent of AMap
  props,               \* the props AMap is rendered with
  markerProps,         \* the props of the Marker child element
  childWanted,         \* the parent passes a Marker as children
  nUpdates,            \* parent re-renders so far
  nToggles,            \* toggles of the visible prop of the Marker so far
  \* the AMap component
  lifecycle,           \* "constructed", "mounted", "unmounted"
  pc,                  \* position of initAMap
  mapOptions,          \* this.mapOptions
  thisMap,             \* this.map
  stateMap,            \* this.state.map, the context value
  mapContainer,        \* this.mapContainer
  AMapEventListeners,  \* this.AMapEventListeners
  \* the AMap.Map instance
  mapCtorCount,        \* successful calls of new AMap.Map
  mapCtorOptions,      \* the options of the last one
  mapListeners,        \* listeners registered with on and not removed with off
  mapDestroyCount,     \* calls of destroy()
  mapCalls,            \* the setter calls of the last componentDidUpdate
  \* the Marker component
  markerLife,          \* "none", "broken", "mounted", "unmounted"
  markerOptions,       \* this.markerOptions
  marker,              \* this.marker
  markerEventListeners,\* this.AMapEventListeners of the Marker
  \* the AMap.Marker instance
  markerCtorCount,     \* calls of new AMap.Marker
  markerCtxMap,        \* the context value the Marker constructor received
  markerSetMapLog,     \* the arguments of its setMap calls
  markerHidden,        \* hidden by hide() / the visible option
  markerListeners,     \* as mapListeners
  markerCtorCalls,     \* the calls the Marker constructor made on it
  markerCalls,         \* the calls of the last shouldComponentUpdate or of
                       \* componentWillUnmount
  \* history
  log,                 \* the steps of initAMap and of the page, in order
  ctorProps,           \* the props the constructor received
  ctorMapOptions,      \* this.mapOptions as the constructor left it
  ctorLibLoaded,       \* window.AMap !== void 0 when the constructor ran
  prevProps,           \* props before the last render pass
  prevMapOptions,      \* this.mapOptions before the last componentDidUpdate
  lastUpdate,          \* "none", "held" or "patched": the last componentDidUpdate
  patches,             \* componentDidUpdate runs that reached the setters
  prevMarkerProps,     \* markerProps before the last parent re-render
  prevMarkerOptions,   \* this.markerOptions before the last shouldComponentUpdate
  markerLast,          \* "none", "constructed" or "updated"
  mapAtUnmount,        \* this.map when componentWillUnmount ran
  gen                  \* parses of props so far (identity of created objects)

vars ==
  <<windowAMap, amapScript, uiScript, locaScript, initAMapUICalls, props, markerProps,
    childWanted, nUpdates, nToggles, lifecycle, pc, mapOptions, thisMap, stateMap, mapContainer,
    AMapEventListeners, mapCtorCount, mapCtorOptions, mapListeners, mapDestroyCount,
    mapCalls, markerLife, markerOptions, marker, markerEventListeners, markerCtorCount,
    markerCtxMap, markerSetMapLog, markerHidden, markerListeners, markerCtorCalls,
    markerCalls, log, ctorProps, ctorMapOptions, ctorLibLoaded, prevProps, prevMapOptions,
    lastUpdate, patches, prevMarkerProps, prevMarkerOptions, markerLast, mapAtUnmount,
    gen>>

\* The whole state as one record: every handler is a function from the state
\* before it to the state after it, so that handlers compose as in the code.
World ==
  [windowAMap |-> windowAMap, amapScript |-> amapScript, uiScript |-> uiScript,
   locaScript |-> locaScript, initAMapUICalls |-> initAMapUICalls, props |-> props,
   markerProps |-> markerProps, childWanted |-> childWanted, nUpdates |-> nUpdates,
   nToggles |-> nToggles,
   lifecycle |-> lifecycle, pc |-> pc, mapOptions |-> mapOptions, thisMap |-> thisMap,
   stateMap |-> stateMap, mapContainer |-> mapContainer,
   AMapEventListeners |-> AMapEventListeners, mapCtorCount |-> mapCtorCount,
   mapCtorOptions |-> mapCtorOptions, mapListeners |-> mapListeners,
   mapDestroyCount |-> mapDestroyCount, mapCalls |-> mapCalls,
   markerLife |-> markerLife, markerOptions |-> markerOptions, marker |-> marker,
   markerEventListeners |-> markerEventListeners, markerCtorCount |-> markerCtorCount,
   markerCtxMap |-> markerCtxMap, markerSetMapLog |-> markerSetMapLog,
   markerHidden |-> markerHidden, markerListeners |-> markerListeners,
   markerCtorCalls |-> markerCtorCalls, markerCalls |-> markerCalls, log |-> log,
   ctorProps |-> ctorProps, ctorMapOptions |-> ctorMapOptions, ctorLibLoaded |-> ctorLibLoaded,
   prevProps |-> prevProps, prevMapOptions |-> prevMapOptions,
   lastUpdate |-> lastUpdate, patches |-> patches, prevMarkerProps |-> prevMarkerProps,
   prevMarkerOptions |-> prevMarkerOptions, markerLast |-> markerLast,
   mapAtUnmount |-> mapAtUnmount, gen |-> gen]

Becomes(w) ==
  /\ windowAMap' = w.windowAMap
  /\ amapScript' = w.amapScript
  /\ uiScript' = w.uiScript
  /\ locaScript' = w.locaScript
  /\ initAMapUICalls' = w.initAMapUICalls
  /\ props' = w.props
  /\ markerProps' = w.markerProps
  /\ childWanted' = w.childWanted
  /\ nUpdates' = w.nUpdates
  /\ nToggles' = w.nToggles
  /\ lifecycle' = w.lifecycle
  /\ pc' = w.pc
  /\ mapOptions' = w.mapOptions
  /\ thisMap' = w.thisMap
  /\ stateMap' = w.stateMap
  /\ mapContainer' = w.mapContainer
  /\ AMapEventListeners' = w.AMapEventListeners
  /\ mapCtorCount' = w.mapCtorCount
  /\ mapCtorOptions' = w.mapCtorOptions
  /\ mapListeners' = w.mapListeners
  /\ mapDestroyCount' = w.mapDestroyCount
  /\ mapCalls' = w.mapCalls
  /\ markerLife' = w.markerLife
  /\ markerOptions' = w.markerOptions
  /\ marker' = w.marker
  /\ markerEventListeners' = w.markerEventListeners
  /\ markerCtorCount' = w.markerCtorCount
  /\ markerCtxMap' = w.markerCtxMap
  /\ markerSetMapLog' = w.markerSetMapLog
  /\ markerHidden' = w.markerHidden
  /\ markerListeners' = w.markerListeners
  /\ markerCtorCalls' = w.markerCtorCalls
  /\ markerCalls' = w.markerCalls
  /\ log' = w.log
  /\ ctorProps' = w.ctorProps
  /\ ctorMapOptions' = w.ctorMapOptions
  /\ ctorLibLoaded' = w.ctorLibLoaded
  /\ prevProps' = w.prevProps
  /\ prevMapOptions' = w.prevMapOptions
  /\ lastUpdate' = w.lastUpdate
  /\ patches' = w.patches
  /\ prevMarkerProps' = w.prevMarkerProps
  /\ prevMarkerOptions' = w.prevMarkerOptions
  /\ markerLast' = w.markerLast
  /\ mapAtUnmount' = w.mapAtUnmount
  /\ gen' = w.gen

\* A call of an SDK method, as recorded in mapCalls, markerCalls, ...
Call(apiName, arg) == [api |-> apiName, arg |-> arg]

\* No options object yet.
NoOptions == [key \in {} |-> Undef]

(***************************************************************************)
(* The Marker component.                                                   *)
(***************************************************************************)
\* Mutant of toggleVisible: show or hide without comparing the props.
toggleVisibleAlways(calls, previousProp, nextProp) ==
  IF nextProp = Bool(TRUE) THEN Append(calls, Call("show", Undef))
  ELSE IF nextProp = Bool(FALSE) THEN Append(calls, Call("hide", Undef))
  ELSE calls

\* Marker.toggleVisible: the calls it adds.
toggleVisible(calls, previousProp, nextProp) ==
  IF ~isShallowEqual(previousProp, nextProp)
    THEN IF nextProp = Bool(TRUE) THEN Append(calls, Call("show", Undef))
         ELSE IF nextProp = Bool(FALSE) THEN Append(calls, Call("hide", Undef))
         ELSE calls
    ELSE calls

\* Marker.updateMarkerWithAPI: the calls it adds.
updateMarkerWithAPI(calls, apiName, previousProp, nextProp, newProp) ==
  IF ~isShallowEqual(previousProp, nextProp)
    THEN Append(calls, Call(apiName, newProp))
    ELSE calls

\* The visibility of the AMap.Marker after a sequence of calls.
RECURSIVE HiddenAfter(_, _)
HiddenAfter(hidden, calls) ==
  IF calls = <<>> THEN hidden
  ELSE HiddenAfter(IF Head(calls).api = "hide" THEN TRUE
                   ELSE IF Head(calls).api = "show" THEN FALSE
                   ELSE hidden,
                   Tail(calls))

\* Marker.initMarker(map) followed by Marker.bindEvents().
initMarker(w, map) ==
  LET visible == Get(w.markerProps, "visible")
      newMarkerOptions == cloneDeep(w.markerOptions, NEED_DEEP_COPY_FIELDS, w.gen)
      calls == <<Call("setMap", map)>>
               \o (IF visible = Bool(FALSE) THEN <<Call("hide", Undef)>> ELSE <<>>)
      eventCallbacks == parseEvents(MarkerEventKeys, MarkerInstance, "Marker")
      bound == bindInstanceEvent(<<>>, eventCallbacks, <<>>)
  IN [w EXCEPT !.marker = MarkerInstance,
               !.markerCtorCount = @ + 1,
               !.markerSetMapLog = Append(@, map),
               !.markerHidden =
                  HiddenAfter(Get(newMarkerOptions, "visible") = Bool(FALSE), calls),
               !.markerCtorCalls = calls,
               !.markerListeners = bound.listeners,
               !.markerEventListeners = bound.eventCBList]

\* utils/breakIfNotChildOfAMap: throws when there is no map in the context.
breakIfNotChildOfAMap(map) == isNullVoid(map)

\* Marker.constructor(props, context)
MarkerConstructor(w) ==
  LET map == w.stateMap
      entered == [w EXCEPT !.markerCtxMap = map, !.log = Append(@, "Marker")]
  IN IF breakIfNotChildOfAMap(map)
       THEN [entered EXCEPT !.markerLife = "broken"]
       ELSE initMarker([entered EXCEPT
                          !.markerLife = "mounted",
                          !.markerLast = "constructed",
                          !.markerOptions = parseMarkerOptions(w.markerProps, w.gen),
                          !.gen = @ + 1],
                       map)

\* Marker.shouldComponentUpdate(nextProps), nextProps = w.markerProps
MarkerShouldComponentUpdate(w) ==
  LET p == w.markerOptions
      n == parseMarkerOptions(w.markerProps, w.gen)
      c == cloneDeep(n, NEED_DEEP_COPY_FIELDS, w.gen)
      c0 == toggleVisible(<<>>, Get(p, "visible"), Get(n, "visible"))
      c1 == updateMarkerWithAPI(c0, "setAnchor", Get(p, "anchor"), Get(n, "anchor"), Get(c, "anchor"))
      c2 == updateMarkerWithAPI(c1, "setOffset", Get(p, "offset"), Get(n, "offset"), Get(c, "offset"))
      c3 == updateMarkerWithAPI(c2, "setAnimation", Get(p, "animation"), Get(n, "animation"), Get(c, "animation"))
      c4 == updateMarkerWithAPI(c3, "setClickable", Get(p, "clickable"), Get(n, "clickable"), Get(c, "clickable"))
      c5 == updateMarkerWithAPI(c4, "setPosition", Get(p, "position"), Get(n, "position"), Get(c, "position"))
      c6 == updateMarkerWithAPI(c5, "setAngle", Get(p, "angle"), Get(n, "angle"), Get(c, "angle"))
      c7 == updateMarkerWithAPI(c6, "setLabel", Get(p, "label"), Get(n, "label"), Get(c, "label"))
      c8 == updateMarkerWithAPI(c7, "setzIndex", Get(p, "zIndex"), Get(n, "zIndex"), Get(c, "zIndex"))
      c9 == updateMarkerWithAPI(c8, "setIcon", Get(p, "icon"), Get(n, "icon"), Get(c, "icon"))
      c10 == updateMarkerWithAPI(c9, "setDraggable", Get(p, "draggable"), Get(n, "draggable"), Get(c, "draggable"))
      c11 == updateMarkerWithAPI(c10, "setCursor", Get(p, "cursor"), Get(n, "cursor"), Get(c, "cursor"))
      c12 == updateMarkerWithAPI(c11, "setContent", Get(p, "content"), Get(n, "content"), Get(c, "content"))
      c13 == updateMarkerWithAPI(c12, "setTitle", Get(p, "title"), Get(n, "title"), Get(c, "title"))
      c14 == updateMarkerWithAPI(c13, "setShadow", Get(p, "shadow"), Get(n, "shadow"), Get(c, "shadow"))
      c15 == updateMarkerWithAPI(c14, "setShape", Get(p, "shape"), Get(n, "shape"), Get(c, "shape"))
      c16 == updateMarkerWithAPI(c15, "setExtData", Get(p, "extData"), Get(n, "extData"), Get(c, "extData"))
  IN [w EXCEPT !.markerOptions = n,
               !.prevMarkerOptions = p,
               !.markerCalls = c16,
               !.markerHidden = HiddenAfter(@, c16),
               !.markerLast = "updated",
               !.gen = @ + 1]

\* The instance.off calls of removeInstanceEvent, in order.
OffCalls(eventCBList) ==
  [i \in 1..Len(eventCBList) |-> Call("off", eventCBList[i])]

\* Mutant of MarkerComponentWillUnmount: the marker is neither detached from
\* the map nor dropped.
MarkerComponentWillUnmountAttached(w) ==
  [w EXCEPT !.markerListeners = removeInstanceEvent(@, w.markerEventListeners),
            !.markerCalls = OffCalls(w.markerEventListeners),
            !.markerLife = "unmounted"]

\* Marker.componentWillUnmount
MarkerComponentWillUnmount(w) ==
  [w EXCEPT !.markerListeners = removeInstanceEvent(@, w.markerEventListeners),
            !.markerSetMapLog = Append(@, Null),
            !.markerCalls = Append(OffCalls(w.markerEventListeners), Call("setMap", Null)),
            !.marker = Null,
            !.markerLife = "unmounted"]

(***************************************************************************)
(* The AMap component.                                                     *)
(***************************************************************************)
\* Mutant of ChildrenRendered: the children are rendered without the guard.
ChildrenRenderedAlways(map) == TRUE

\* AMap.render: {map !== void 0 && children}
ChildrenRendered(map) == map # Undef

\* AMap.render and the reconciliation of its children.  parentRender: the
\* parent re-rendered, so the Marker element is a new one.
render(w, parentRender) ==
  IF w.childWanted /\ ChildrenRendered(w.stateMap)
    THEN IF w.markerLife = "none" THEN MarkerConstructor(w)
         ELSE IF w.markerLife = "mounted" /\ parentRender
           THEN MarkerShouldComponentUpdate(w)
         ELSE w
    ELSE IF w.markerLife = "mounted" THEN MarkerComponentWillUnmount(w)
         ELSE w

\* Mutant of HoldUpdates: componentDidUpdate without the early return.
HoldUpdatesNever(map) == FALSE

\* componentDidUpdate: if (this.map === void 0) return;
HoldUpdates(map) == map = Undef

\* Mutant of updateMapWithAPI: the setter called without the comparison.
updateMapWithAPIAlways(calls, apiName, previousCompareProp, nextCompareProp, nextProp) ==
  Append(calls, Call(apiName, nextProp))

\* AMap.updateMapWithAPI: the calls it adds.
updateMapWithAPI(calls, apiName, previousCompareProp, nextCompareProp, nextProp) ==
  IF ~isShallowEqual(previousCompareProp, nextCompareProp)
    THEN IF apiName = "setCenter" /\ ~Truthy(nextProp)
           THEN calls
           ELSE Append(calls, Call(apiName, nextProp))
    ELSE calls

\* AMap.componentDidUpdate
componentDidUpdate(w) ==
  IF HoldUpdates(w.thisMap)
    THEN [w EXCEPT !.mapCalls = <<>>, !.lastUpdate = "held"]
    ELSE
      LET p == w.mapOptions
          n == parseMapOptions(w.props, w.windowAMap, w.gen)
          c1 == updateMapWithAPI(<<>>, "setZoom", Get(p, "zoom"), Get(n, "zoom"), Get(n, "zoom"))
          c2 == updateMapWithAPI(c1, "setLabelzIndex", Get(p, "labelzIndex"), Get(n, "labelzIndex"), Get(n, "labelzIndex"))
          c3 == updateMapWithAPI(c2, "setCenter", Get(p, "center"), Get(n, "center"), Get(n, "center"))
          c4 == updateMapWithAPI(c3, "setCity", Get(p, "city"), Get(n, "city"), Get(n, "city"))
          c5 == updateMapWithAPI(c4, "setBounds", Get(p, "boundsProp"), Get(n, "boundsProp"), Get(n, "bounds"))
          c6 == updateMapWithAPI(c5, "setLang", Get(p, "lang"), Get(n, "lang"), Get(n, "lang"))
          c7 == updateMapWithAPI(c6, "setRotation", Get(p, "rotation"), Get(n, "rotation"), Get(n, "rotation"))
          c8 == updateMapWithAPI(c7, "setStatus", Get(p, "status"), Get(n, "status"), Get(n, "status"))
          c9 == updateMapWithAPI(c8, "setDefaultCursor", Get(p, "defaultCursor"), Get(n, "defaultCursor"), Get(n, "defaultCursor"))
          c10 == updateMapWithAPI(c9, "setMapStyle", Get(p, "mapStyle"), Get(n, "mapStyle"), Get(n, "mapStyle"))
          c11 == updateMapWithAPI(c10, "setFeatures", Get(p, "features"), Get(n, "features"), Get(n, "features"))
          c12 == updateMapWithAPI(c11, "setDefaultLayer", Get(p, "defaultLayer"), Get(n, "defaultLayer"), Get(n, "defaultLayer"))
          c13 == updateMapWithAPI(c12, "setPitch", Get(p, "pitch"), Get(n, "pitch"), Get(n, "pitch"))
      IN [w EXCEPT !.mapOptions = n,
                   !.prevMapOptions = p,
                   !.mapCalls = c13,
                   !.lastUpdate = "patched",
                   !.patches = @ + 1,
                   !.gen = @ + 1]

\* A render pass of the mounted AMap: render, then componentDidUpdate.
RenderPass(w, parentRender) == componentDidUpdate(render(w, parentRender))

\* AMap.componentWillUnmount
componentWillUnmount(w) ==
  IF w.stateMap # Undef
    THEN [w EXCEPT !.mapListeners = removeInstanceEvent(@, w.AMapEventListeners),
                   !.mapDestroyCount = @ + 1]
    ELSE w

\* Mutant of newMap: the map constructed from the options of the current
\* props.
newMapFromProps(w) ==
  [w EXCEPT !.thisMap = MapInstance,
            !.mapCtorCount = @ + 1,
            !.mapCtorOptions = parseMapOptions(w.props, w.windowAMap, w.gen),
            !.mapListeners = <<>>,
            !.log = Append(@, "newMap")]

\* new window.AMap.Map(this.mapContainer, {...this.mapOptions})
newMap(w) ==
  [w EXCEPT !.thisMap = MapInstance,
            !.mapCtorCount = @ + 1,
            !.mapCtorOptions = w.mapOptions,
            !.mapListeners = <<>>,
            !.log = Append(@, "newMap")]

\* AMap.bindEvents
bindEvents(w) ==
  LET eventCallbacks == parseEvents(MapEventKeys, w.thisMap, "AMap")
      bound == bindInstanceEvent(w.mapListeners, eventCallbacks, <<>>)
  IN [w EXCEPT !.AMapEventListeners = bound.eventCBList,
               !.mapListeners = bound.listeners,
               !.log = Append(@, "bindEvents")]

\* this.setState({map: this.map}): React drops the update of an unmounted
\* component; otherwise the component re-renders and componentDidUpdate runs.
setState(w) ==
  IF w.lifecycle = "mounted"
    THEN RenderPass([w EXCEPT !.stateMap = w.thisMap,
                              !.prevProps = w.props,
                              !.log = Append(@, "setState")],
                    FALSE)
    ELSE [w EXCEPT !.log = Append(@, "setState")]

\* The tail of initAMap, after the awaits.  containerAccepted: AMap.Map
\* accepts the container; the SDK decides for the null container an
\* unmounted component passes, and the promise of initAMap rejects if not.
ConstructMap(w, containerAccepted) ==
  IF w.mapContainer = Null /\ ~containerAccepted
    THEN [w EXCEPT !.pc = "rejected", !.log = Append(@, "throw")]
    ELSE setState(bindEvents(newMap([w EXCEPT !.pc = "done"])))

\* Mutant of AfterAwaitAMapUI: initAMap without `await Loca`.
AfterAwaitAMapUINoLoca(loca) == "construct"

\* initAMap after `await AMapUI`: the next step, given the Loca script.
AfterAwaitAMapUI(loca) == IF loca = "loaded" THEN "construct" ELSE "awaitLoca"

\* initAMap up to its first await.
initAMap(w) ==
  IF ~w.windowAMap
    THEN [w EXCEPT !.amapScript = "requested",
                   !.pc = "awaitAMap",
                   !.log = Append(@, "requireAMap")]
    ELSE ConstructMap(w, TRUE)

(***************************************************************************)
(* Initial state: the AMap constructor has run.                            *)
(***************************************************************************)
\* The props AMap is first rendered with.
InitialMapProps(libLoaded) ==
  {DefaultMapProps,
   SetProp(SetProp(SetProp(SetProp(SetProp(DefaultMapProps,
     "bounds", Arr(8, <<SouthWest, NorthEast>>)),
     "zoom", Prim(1)),
     "center", Arr(1, <<Prim(1), Prim(2)>>)),
     "onClick", Func(1)),
     "proxyUrl", Prim(1))}
  \cup (IF libLoaded
          THEN {SetProp(DefaultMapProps, "bounds", Bounds(13, SouthWest, NorthEast))}
          ELSE {})

\* The props the Marker element is first rendered with.
InitialMarkerProps ==
  {SetProp(DefaultMarkerProps, "position", Arr(21, <<Prim(1), Prim(2)>>)),
   SetProp(SetProp(SetProp(SetProp(SetProp(DefaultMarkerProps,
     "position", Arr(21, <<Prim(1), Prim(2)>>)),
     "label", Obj(26, <<Entry("content", Prim(1))>>)),
     "icon", Obj(30, <<Entry("image", Prim(1)), Entry("size", Prim(2))>>)),
     "offset", Arr(24, <<Prim(1), Prim(1)>>)),
     "visible", Bool(FALSE))}

Init ==
  /\ windowAMap \in BOOLEAN
  /\ amapScript = "none"
  /\ uiScript = "none"
  /\ locaScript = "none"
  /\ initAMapUICalls = 0
  /\ props \in InitialMapProps(windowAMap)
  /\ markerProps \in InitialMarkerProps
  /\ childWanted = TRUE
  /\ nUpdates = 0
  /\ nToggles = 0
  /\ lifecycle = "constructed"
  /\ pc = "start"
  /\ mapOptions = parseMapOptions(props, windowAMap, 0)
  /\ thisMap = Undef
  /\ stateMap = Undef
  /\ mapContainer = Undef
  /\ AMapEventListeners = <<>>
  /\ mapCtorCount = 0
  /\ mapCtorOptions = NoOptions
  /\ mapListeners = <<>>
  /\ mapDestroyCount = 0
  /\ mapCalls = <<>>
  /\ markerLife = "none"
  /\ markerOptions = NoOptions
  /\ marker = Undef
  /\ markerEventListeners = <<>>
  /\ markerCtorCount = 0
  /\ markerCtxMap = Undef
  /\ markerSetMapLog = <<>>
  /\ markerHidden = FALSE
  /\ markerListeners = <<>>
  /\ markerCtorCalls = <<>>
  /\ markerCalls = <<>>
  /\ log = <<>>
  /\ ctorProps = props
  /\ ctorMapOptions = mapOptions
  /\ ctorLibLoaded = windowAMap
  /\ prevProps = props
  /\ prevMapOptions = mapOptions
  /\ lastUpdate = "none"
  /\ patches = 0
  /\ prevMarkerProps = markerProps
  /\ prevMarkerOptions = NoOptions
  /\ markerLast = "none"
  /\ mapAtUnmount = Undef
  /\ gen = 1

(***************************************************************************)
(* Actions.                                                                *)
(***************************************************************************)
\* The first render and AMap.componentDidMount, which starts initAMap.
ComponentDidMount ==
  /\ lifecycle = "constructed"
  /\ Becomes(initAMap(render([World EXCEPT !.lifecycle = "mounted",
                                           !.mapContainer = ContainerDiv],
                             FALSE)))

\* Mutant of loadScriptSettles: the promise is also settled by onerror.
loadScriptSettlesOnError(event) == event \in {"load", "error"}

\* AMap.loadScript: the events of the script tag that settle the promise it
\* returns.  Only scriptTag.onload is set.
loadScriptSettles(event) == event = "load"

\* initAMap resumes after `await requireAMap`: it requests the AMapUI and Loca
\* scripts and awaits AMapUI.
ResumeAfterRequireAMap(w) ==
  [w EXCEPT !.uiScript = "requested",
            !.locaScript = "requested",
            !.pc = "awaitAMapUI",
            !.log = @ \o <<"requireAMapUI", "requireLoca", "awaitAMapUI">>]

\* requireAMapUI resumes after its await and calls window.initAMapUI(); then
\* initAMap resumes after `await AMapUI`.
ResumeAfterRequireAMapUI(w, containerAccepted) ==
  LET w1 == [w EXCEPT !.initAMapUICalls = @ + 1,
                      !.log = @ \o <<"initAMapUI", "awaitLoca">>]
  IN IF AfterAwaitAMapUI(w.locaScript) = "construct"
       THEN ConstructMap(w1, containerAccepted)
       ELSE [w1 EXCEPT !.pc = "awaitLoca"]

\* The promise of requireLoca settles: initAMap resumes if it is at
\* `await Loca`.
ResumeAfterRequireLoca(w, containerAccepted) ==
  IF w.pc = "awaitLoca" THEN ConstructMap(w, containerAccepted) ELSE w

\* onload of the AMap script.
AMapScriptLoaded ==
  /\ amapScript = "requested"
  /\ LET w == [World EXCEPT !.amapScript = "loaded",
                            !.windowAMap = TRUE,
                            !.log = Append(@, "AMapLoaded")]
     IN IF loadScriptSettles("load")
          THEN Becomes(ResumeAfterRequireAMap(w))
          ELSE Becomes(w)

\* onload of the AMapUI script.
AMapUIScriptLoaded ==
  /\ uiScript = "requested"
  /\ \E containerAccepted \in BOOLEAN :
       LET w == [World EXCEPT !.uiScript = "loaded", !.log = Append(@, "AMapUILoaded")]
       IN IF loadScriptSettles("load")
            THEN Becomes(ResumeAfterRequireAMapUI(w, containerAccepted))
            ELSE Becomes(w)

\* onload of the Loca script.
LocaScriptLoaded ==
  /\ locaScript = "requested"
  /\ \E containerAccepted \in BOOLEAN :
       LET w == [World EXCEPT !.locaScript = "loaded", !.log = Append(@, "LocaLoaded")]
       IN IF loadScriptSettles("load")
            THEN Becomes(ResumeAfterRequireLoca(w, containerAccepted))
            ELSE Becomes(w)

\* The AMap script fails to load: onload never fires.
AMapScriptFailed ==
  /\ amapScript = "requested"
  /\ LET w == [World EXCEPT !.amapScript = "failed", !.log = Append(@, "AMapFailed")]
     IN IF loadScriptSettles("error")
          THEN Becomes(ResumeAfterRequireAMap(w))
          ELSE Becomes(w)

\* The AMapUI script fails to load.
AMapUIScriptFailed ==
  /\ uiScript = "requested"
  /\ \E containerAccepted \in BOOLEAN :
       LET w == [World EXCEPT !.uiScript = "failed", !.log = Append(@, "AMapUIFailed")]
       IN IF loadScriptSettles("error")
            THEN Becomes(ResumeAfterRequireAMapUI(w, containerAccepted))
            ELSE Becomes(w)

\* The Loca script fails to load.
LocaScriptFailed ==
  /\ locaScript = "requested"
  /\ \E containerAccepted \in BOOLEAN :
       LET w == [World EXCEPT !.locaScript = "failed", !.log = Append(@, "LocaFailed")]
       IN IF loadScriptSettles("error")
            THEN Becomes(ResumeAfterRequireLoca(w, containerAccepted))
            ELSE Becomes(w)

\* The parent re-renders AMap with one prop changed.
UpdateMapProps ==
  /\ lifecycle = "mounted"
  /\ nUpdates < MaxUpdates
  /\ \E key \in MapPropKeys :
       \E v \in MapPropValues(key, windowAMap) \ {Get(props, key)} :
         Becomes(RenderPass([World EXCEPT !.props = SetProp(props, key, v),
                                          !.prevProps = props,
                                          !.prevMarkerProps = markerProps,
                                          !.nUpdates = @ + 1],
                            TRUE))

\* The parent re-renders the mounted Marker with one prop changed.
UpdateMarkerProps ==
  /\ lifecycle = "mounted"
  /\ markerLife = "mounted"
  /\ nUpdates < MaxUpdates
  /\ \E key \in MarkerPropKeys :
       \E v \in MarkerPropValues(key, windowAMap) \ {Get(markerProps, key)} :
         Becomes(RenderPass([World EXCEPT !.markerProps = SetProp(markerProps, key, v),
                                          !.prevProps = props,
                                          !.prevMarkerProps = markerProps,
                                          !.nUpdates = @ + 1],
                            TRUE))

\* The parent toggles the visible prop of the mounted Marker.
toggleVisibleProp ==
  /\ lifecycle = "mounted"
  /\ markerLife = "mounted"
  /\ nToggles < MaxToggles
  /\ Becomes(RenderPass([World EXCEPT
                          !.markerProps =
                             SetProp(markerProps, "visible",
                                     Bool(~Truthy(Get(markerProps, "visible")))),
                          !.prevProps = props,
                          !.prevMarkerProps = markerProps,
                          !.nToggles = @ + 1],
                        TRUE))

\* The parent re-renders with the same props.
ParentReRender ==
  /\ lifecycle = "mounted"
  /\ nUpdates < MaxUpdates
  /\ Becomes(RenderPass([World EXCEPT !.prevProps = props,
                                      !.prevMarkerProps = markerProps,
                                      !.nUpdates = @ + 1],
                        TRUE))

\* The parent stops rendering the Marker child.
RemoveMarker ==
  /\ lifecycle = "mounted"
  /\ childWanted
  /\ Becomes(RenderPass([World EXCEPT !.childWanted = FALSE,
                                      !.prevProps = props,
                                      !.prevMarkerProps = markerProps],
                        TRUE))

\* The parent unmounts AMap: its componentWillUnmount, then the Marker's;
\* the ref callback receives null.
Unmount ==
  /\ lifecycle = "mounted"
  /\ LET w1 == componentWillUnmount([World EXCEPT !.mapAtUnmount = thisMap])
         w2 == IF w1.markerLife = "mounted" THEN MarkerComponentWillUnmount(w1) ELSE w1
     IN Becomes([w2 EXCEPT !.lifecycle = "unmounted", !.mapContainer = Null])

\* The AMap component with a Marker child whose props do not change.
Next ==
  \/ ComponentDidMount
  \/ AMapScriptLoaded
  \/ AMapUIScriptLoaded
  \/ LocaScriptLoaded
  \/ UpdateMapProps
  \/ ParentReRender
  \/ RemoveMarker
  \/ Unmount

Spec == Init /\ [][Next]_vars

\* The Marker child of an AMap component whose props do not change.
MarkerNext ==
  \/ ComponentDidMount
  \/ AMapScriptLoaded
  \/ AMapUIScriptLoaded
  \/ LocaScriptLoaded
  \/ UpdateMarkerProps
  \/ toggleVisibleProp
  \/ ParentReRender
  \/ RemoveMarker
  \/ Unmount

MarkerSpec == Init /\ [][MarkerNext]_vars

\* The AMap component when scripts may fail to load.
LoadFailureNext ==
  \/ ComponentDidMount
  \/ AMapScriptLoaded
  \/ AMapUIScriptLoaded
  \/ LocaScriptLoaded
  \/ AMapScriptFailed
  \/ AMapUIScriptFailed
  \/ LocaScriptFailed
  \/ UpdateMapProps
  \/ ParentReRender
  \/ RemoveMarker
  \/ Unmount

LoadFailureSpec == Init /\ [][LoadFailureNext]_vars

(***************************************************************************)
(* Properties.                                                             *)
(***************************************************************************)
\* Position of a step in log (0 when it has not happened).
Pos(step) ==
  IF \E i \in 1..Len(log) : log[i] = step
    THEN CHOOSE i \in 1..Len(log) : log[i] = step
    ELSE 0

Happened(step) == Pos(step) > 0

\* If b has happened, a happened before it.
Before(a, b) == Happened(b) => Happened(a) /\ Pos(a) < Pos(b)

\* The events of the AMap.Map instance are bound.
MapEventsBound == Happened("bindEvents") /\ AMapEventListeners # <<>>

\* C1: the context value is a map instance and the children are rendered only
\* once the AMap.Map instance has been constructed and its events bound;
\* until then the context value is undefined and no child is constructed, so
\* the Marker constructor never runs with an undefined map.
C1_ChildrenOnlyWithMap ==
  /\ stateMap # Undef =>
       stateMap = MapInstance /\ thisMap = MapInstance /\ mapCtorCount >= 1
       /\ MapEventsBound
  /\ stateMap = Undef => markerLife = "none" /\ markerCtorCount = 0
  /\ Happened("Marker") =>
       markerCtxMap = MapInstance /\ Before("bindEvents", "Marker")

C1_Witness ==
  markerLife = "mounted" /\ markerCtxMap = MapInstance /\ stateMap = MapInstance

\* C2: whatever the interleaving of mount, script loading and unmount, once
\* the component has unmounted every AMap.Map instance it constructed has had
\* its listeners removed and destroy() called exactly once.
C2_DestroyedOnUnmount ==
  /\ mapDestroyCount <= mapCtorCount
  /\ mapDestroyCount <= 1
  /\ lifecycle = "unmounted" /\ mapCtorCount > 0 =>
       mapDestroyCount = 1 /\ mapListeners = <<>>

\* C3: mounted while window.AMap is undefined, initAMap loads the AMap script
\* before it requests AMapUI and Loca, requests both before it awaits either,
\* calls initAMapUI only after the AMapUI script has loaded, constructs the
\* map only after both have loaded, and binds the events after the
\* construction and before state.map is set.
C3_InitOrder ==
  Happened("requireAMap") =>
    /\ Pos("requireAMap") = 1
    /\ Before("requireAMap", "AMapLoaded")
    /\ Before("AMapLoaded", "requireAMapUI")
    /\ Before("AMapLoaded", "requireLoca")
    /\ Before("requireAMapUI", "awaitAMapUI")
    /\ Before("requireLoca", "awaitAMapUI")
    /\ Before("awaitAMapUI", "awaitLoca")
    /\ Before("AMapUILoaded", "initAMapUI")
    /\ Before("AMapUILoaded", "newMap")
    /\ Before("LocaLoaded", "newMap")
    /\ Before("initAMapUI", "newMap")
    /\ Before("newMap", "bindEvents")
    /\ Before("bindEvents", "setState")
    /\ uiScript # "none" \/ locaScript # "none" => amapScript = "loaded"
    /\ initAMapUICalls > 0 => uiScript = "loaded"
    /\ mapCtorCount > 0 => uiScript = "loaded" /\ locaScript = "loaded"
    /\ stateMap # Undef => MapEventsBound

C3_Witness ==
  /\ Happened("requireAMap")
  /\ Happened("setState")
  /\ stateMap = MapInstance
  /\ Pos("LocaLoaded") < Pos("AMapUILoaded")

\* C4: while this.map is undefined componentDidUpdate calls no AMap.Map
\* setter and leaves this.mapOptions as the constructor set it, however the
\* props change.
C4_UpdatesHeld ==
  thisMap = Undef => mapCalls = <<>> /\ mapOptions = ctorMapOptions /\ patches = 0

C4_Witness ==
  /\ thisMap = Undef
  /\ lastUpdate = "held"
  /\ props # ctorProps
  /\ parseMapOptions(props, windowAMap, gen) # mapOptions

\* The calls of one method in a sequence of calls.
CallsOf(calls, apiName) == SelectSeq(calls, LAMBDA c : c.api = apiName)

\* The AMap.Map setter that follows a tracked option.
MapSetterOf(key) ==
  CASE key = "zoom" -> "setZoom"
    [] key = "labelzIndex" -> "setLabelzIndex"
    [] key = "center" -> "setCenter"
    [] key = "city" -> "setCity"
    [] key = "bounds" -> "setBounds"
    [] key = "lang" -> "setLang"
    [] key = "rotation" -> "setRotation"
    [] key = "status" -> "setStatus"
    [] key = "defaultCursor" -> "setDefaultCursor"
    [] key = "mapStyle" -> "setMapStyle"
    [] key = "features" -> "setFeatures"
    [] key = "defaultLayer" -> "setDefaultLayer"
    [] key = "pitch" -> "setPitch"

\* The option whose remembered and next values are compared for a tracked
\* option: bounds is compared through boundsProp.
ComparedOption(key) == IF key = "bounds" THEN "boundsProp" ELSE key

\* The setter of a tracked option was called exactly once, with the value.
CalledOnceWith(key, v) == CallsOf(mapCalls, MapSetterOf(key)) = <<Call(MapSetterOf(key), v)>>

NotCalled(key) == CallsOf(mapCalls, MapSetterOf(key)) = <<>>

\* The remembered and the next compared values of a tracked option differed
\* in the last componentDidUpdate.
ComparedChanged(key) ==
  ~isShallowEqual(Get(prevMapOptions, ComparedOption(key)),
                  Get(mapOptions, ComparedOption(key)))

\* The prop of a tracked option did not change in the last render pass.
PropUnchanged(key) == isShallowEqual(Get(prevProps, key), Get(props, key))

\* C5 as stated: once the map exists, on every update and for every tracked
\* option (center when the new value is truthy) the setter is called exactly
\* once with the new value if the compared values are not shallow-equal, and
\* is not called at all if the prop did not change.
C5_SetterFollowsProp ==
  lastUpdate = "patched" =>
    \A key \in TrackedMapOptions :
      (key = "center" => Truthy(Get(mapOptions, key))) =>
        /\ ComparedChanged(key) => CalledOnceWith(key, Get(mapOptions, key))
        /\ PropUnchanged(key) => NotCalled(key)

\* C5 amended: once the map exists, on every update and for every tracked
\* option (center when the new value is truthy) the setter is called exactly
\* once with the new value if the remembered and the next compared values are
\* not shallow-equal, and is not called at all if they are shallow-equal.
C5_SetterFollowsComparedValue ==
  lastUpdate = "patched" =>
    \A key \in TrackedMapOptions :
      (key = "center" => Truthy(Get(mapOptions, key))) =>
        /\ ComparedChanged(key) => CalledOnceWith(key, Get(mapOptions, key))
        /\ ~ComparedChanged(key) => NotCalled(key)

C5_Witness ==
  /\ lastUpdate = "patched"
  /\ patches >= 2
  /\ \E key \in TrackedMapOptions \ {"bounds"} :
       ComparedChanged(key) /\ CalledOnceWith(key, Get(mapOptions, key))
  /\ \E key \in TrackedMapOptions :
       Get(props, key) # Undef /\ PropUnchanged(key) /\ NotCalled(key)

\* The AMap.Bounds value parseMapOptions derives from props.bounds.
DerivedBounds(b, bounds) ==
  IF bounds.t = "Bounds"
    THEN b = bounds
    ELSE /\ b.t = "Bounds"
         /\ Field(b, "southwest") = Field(bounds, "0")
         /\ Field(b, "northeast") = Field(bounds, "1")

\* C6: when a bounds prop is given and window.AMap is undefined at the
\* construction of the component, the options the map is constructed with
\* have bounds = undefined and boundsProp = undefined, and the update that
\* follows the creation of the map calls setBounds with the AMap.Bounds
\* value derived from props.bounds.
C6_BoundsThroughSetBounds ==
  ~ctorLibLoaded /\ Get(ctorProps, "bounds") # Undef =>
    /\ mapCtorCount > 0 =>
         /\ Get(mapCtorOptions, "bounds") = Undef
         /\ Get(mapCtorOptions, "boundsProp") = Undef
    /\ stateMap = MapInstance => patches >= 1
    /\ patches = 1 /\ Get(props, "bounds") # Undef =>
         /\ Len(CallsOf(mapCalls, "setBounds")) = 1
         /\ DerivedBounds(CallsOf(mapCalls, "setBounds")[1].arg, Get(props, "bounds"))

C6_Witness ==
  /\ ~ctorLibLoaded
  /\ Get(ctorProps, "bounds") # Undef
  /\ patches = 1
  /\ Get(props, "bounds").t = "Array"
  /\ Len(CallsOf(mapCalls, "setBounds")) = 1
  /\ CallsOf(mapCalls, "setBounds")[1].arg.t = "Bounds"

\* The Marker received the very same props in the last re-render.
MarkerPropsUnchanged == prevMarkerProps = markerProps

\* C7: when a Marker receives next props whose values equal its previous
\* props, shouldComponentUpdate calls no AMap.Marker setter and no
\* show() / hide().
C7_NoCallWhenUnchanged ==
  markerLife = "mounted" /\ markerLast = "updated" /\ MarkerPropsUnchanged =>
    markerCalls = <<>>

\* C8: parseMarkerOptions returns label = null both for props.label null and
\* undefined, so an update from a label object to null or to undefined calls
\* setLabel(null).
C8_LabelCleared ==
  markerLife = "mounted" /\ isNullVoid(Get(markerProps, "label")) =>
    /\ Get(markerOptions, "label") = Null
    /\ markerLast = "updated" /\ IsObject(Get(prevMarkerProps, "label")) =>
         CallsOf(markerCalls, "setLabel") = <<Call("setLabel", Null)>>

\* The show() and hide() calls in a sequence of calls.
ShowHide(calls) == SelectSeq(calls, LAMBDA c : c.api \in {"show", "hide"})

\* C9: the AMap.Marker is hidden iff the latest visible prop is false; the
\* constructor calls hide() only when visible === false, an update calls
\* show() / hide() only when visible changed, and neither when it did not.
C9_VisibleFollowsProp ==
  markerLife = "mounted" =>
    /\ markerHidden <=> Get(markerProps, "visible") = Bool(FALSE)
    /\ markerLast = "constructed" =>
         ShowHide(markerCtorCalls) =
           IF Get(markerProps, "visible") = Bool(FALSE)
             THEN <<Call("hide", Undef)>> ELSE <<>>
    /\ markerLast = "updated" =>
         ShowHide(markerCalls) =
           IF Get(prevMarkerProps, "visible") = Get(markerProps, "visible") THEN <<>>
           ELSE IF Get(markerProps, "visible") = Bool(TRUE) THEN <<Call("show", Undef)>>
           ELSE <<Call("hide", Undef)>>

C9_Witness ==
  /\ markerLife = "mounted"
  /\ markerLast = "updated"
  /\ nToggles = 2
  /\ markerHidden
  /\ ShowHide(markerCalls) = <<Call("hide", Undef)>>

\* The AMap.Map event names of the callbacks of AMap.parseEvents, in order.
ExpectedMapEventNames ==
  << <<"c","o","m","p","l","e","t","e">>,
     <<"c","l","i","c","k">>,
     <<"d","b","l","c","l","i","c","k">>,
     <<"m","a","p","m","o","v","e">>,
     <<"h","o","t","s","p","o","t","c","l","i","c","k">>,
     <<"h","o","t","s","p","o","t","o","v","e","r">>,
     <<"h","o","t","s","p","o","t","o","u","t">>,
     <<"m","o","v","e","s","t","a","r","t">>,
     <<"m","o","v","e","e","n","d">>,
     <<"z","o","o","m","c","h","a","n","g","e">>,
     <<"z","o","o","m","s","t","a","r","t">>,
     <<"z","o","o","m","e","n","d">>,
     <<"m","o","u","s","e","m","o","v","e">>,
     <<"m","o","u","s","e","w","h","e","e","l">>,
     <<"m","o","u","s","e","o","v","e","r">>,
     <<"m","o","u","s","e","o","u","t">>,
     <<"m","o","u","s","e","u","p">>,
     <<"m","o","u","s","e","d","o","w","n">>,
     <<"r","i","g","h","t","c","l","i","c","k">>,
     <<"d","r","a","g","s","t","a","r","t">>,
     <<"d","r","a","g","g","i","n","g">>,
     <<"d","r","a","g","e","n","d">>,
     <<"r","e","s","i","z","e">>,
     <<"t","o","u","c","h","s","t","a","r","t">>,
     <<"t","o","u","c","h","m","o","v","e">>,
     <<"t","o","u","c","h","e","n","d">> >>

\* The AMap.Marker event names of the callbacks of Marker.parseEvents, in order.
ExpectedMarkerEventNames ==
  << <<"c","l","i","c","k">>,
     <<"d","b","l","c","l","i","c","k">>,
     <<"r","i","g","h","t","c","l","i","c","k">>,
     <<"m","o","u","s","e","m","o","v","e">>,
     <<"m","o","u","s","e","o","v","e","r">>,
     <<"m","o","u","s","e","o","u","t">>,
     <<"m","o","u","s","e","d","o","w","n">>,
     <<"m","o","u","s","e","u","p">>,
     <<"d","r","a","g","s","t","a","r","t">>,
     <<"d","r","a","g","g","i","n","g">>,
     <<"d","r","a","g","e","n","d">>,
     <<"m","o","v","i","n","g">>,
     <<"m","o","v","e","e","n","d">>,
     <<"m","o","v","e","a","l","o","n","g">>,
     <<"t","o","u","c","h","s","t","a","r","t">>,
     <<"t","o","u","c","h","m","o","v","e">>,
     <<"t","o","u","c","h","e","n","d">> >>

\* The event names of a sequence of listeners.
EventNames(listeners) == [i \in 1..Len(listeners) |-> listeners[i].eventName]

\* No handler is registered twice.
DistinctHandlers(listeners) ==
  \A i, j \in 1..Len(listeners) : i # j => listeners[i].handler # listeners[j].handler

\* C10: bindInstanceEvent registers exactly one handler per key of the
\* callbacks, under the key without its leading 'on' and in lower case, and
\* records each pair; removeInstanceEvent removes exactly the recorded pairs,
\* so after a Marker or a created AMap unmounts none of its handlers remains
\* on the SDK instance.
C10_BindRemoveRoundTrip ==
  /\ mapCtorCount > 0 /\ mapDestroyCount = 0 =>
       /\ EventNames(mapListeners) = ExpectedMapEventNames
       /\ DistinctHandlers(mapListeners)
       /\ AMapEventListeners = mapListeners
  /\ markerLife = "mounted" =>
       /\ EventNames(markerListeners) = ExpectedMarkerEventNames
       /\ DistinctHandlers(markerListeners)
       /\ markerEventListeners = markerListeners
  /\ markerLife = "unmounted" => markerListeners = <<>>
  /\ lifecycle = "unmounted" /\ mapAtUnmount = MapInstance => mapListeners = <<>>

C10_Witness ==
  /\ lifecycle = "unmounted"
  /\ mapAtUnmount = MapInstance
  /\ markerLife = "unmounted"
  /\ Len(AMapEventListeners) = 26
  /\ Len(markerEventListeners) = 17
  /\ mapListeners = <<>>
  /\ markerListeners = <<>>

\* The methods called by a sequence of calls, in order.
ApiNames(calls) == [i \in 1..Len(calls) |-> calls[i].api]

\* C11: a Marker constructs exactly one AMap.Marker, in its constructor,
\* attaches it to the context map exactly once and never again on an update;
\* on unmount it removes its listeners, then calls setMap(null) exactly once
\* and drops the reference; an AMap constructs at most one AMap.Map.
C11_OneInstancePerComponent ==
  /\ mapCtorCount <= 1
  /\ markerCtorCount <= 1
  /\ markerLife = "none" => markerCtorCount = 0 /\ markerSetMapLog = <<>>
  /\ markerLife = "mounted" =>
       /\ markerCtorCount = 1
       /\ marker = MarkerInstance
       /\ markerSetMapLog = <<MapInstance>>
       /\ ApiNames(markerCtorCalls)[1] = "setMap"
       /\ CallsOf(markerCalls, "setMap") = <<>>
  /\ markerLife = "unmounted" =>
       /\ markerCtorCount = 1
       /\ marker = Null
       /\ markerSetMapLog = <<MapInstance, Null>>
       /\ markerListeners = <<>>
       /\ ApiNames(markerCalls) = [i \in 1..18 |-> IF i <= 17 THEN "off" ELSE "setMap"]

C11_Witness ==
  /\ markerLife = "unmounted"
  /\ markerLast = "updated"
  /\ lifecycle = "mounted"
  /\ mapCtorCount = 1
  /\ markerSetMapLog = <<MapInstance, Null>>

\* A script tag the component appended failed to load.
ScriptFailed == "failed" \in {amapScript, uiScript, locaScript}

\* How often a step happened.
Times(step) == Len(SelectSeq(log, LAMBDA s : s = step))

\* C12: when one of the AMap, AMapUI and Loca scripts fails to load, the
\* promise of loadScript neither resolves nor rejects and nothing is retried:
\* initAMap stays at its await, state.map stays undefined, no AMap.Map is
\* constructed, no events are bound, no children are rendered and no error
\* state is reached.
C12_LoadFailureUnhandled ==
  /\ Times("requireAMap") <= 1 /\ Times("requireAMapUI") <= 1 /\ Times("requireLoca") <= 1
  /\ ScriptFailed =>
       /\ pc = (IF amapScript = "failed" THEN "awaitAMap"
                ELSE IF uiScript # "loaded" THEN "awaitAMapUI"
                ELSE "awaitLoca")
       /\ ~Happened("throw")
       /\ stateMap = Undef
       /\ thisMap = Undef
       /\ mapCtorCount = 0
       /\ ~Happened("bindEvents") /\ mapListeners = <<>> /\ AMapEventListeners = <<>>
       /\ markerLife = "none" /\ markerCtorCount = 0
       /\ lastUpdate # "patched"

C12_Witness ==
  /\ locaScript = "failed"
  /\ uiScript = "loaded"
  /\ initAMapUICalls = 1
  /\ lifecycle = "mounted"
  /\ lastUpdate = "held"
  /\ props # ctorProps
  /\ stateMap = Undef

\* The props the propTypes of AMap document as self defined.
DocumentedSelfDefinedProps == MapSelfDefinedProps \cup {"proxyUrl"}

\* C13: the options passed to AMap.Map contain none of the 26 event callback
\* props and none of the self defined props appKey, children, locaVersion,
\* protocol, proxyUrl, uiVersion and version, and every other prop is passed
\* through with its value unchanged, bounds excepted.
C13_OnlyMapOptions ==
  mapCtorCount >= 1 =>
    /\ DOMAIN mapCtorOptions \cap (MapCallbackProps \cup DocumentedSelfDefinedProps) = {}
    /\ \A key \in DOMAIN ctorProps \ (MapCallbackProps \cup DocumentedSelfDefinedProps) :
         /\ key \in DOMAIN mapCtorOptions
         /\ key # "bounds" => mapCtorOptions[key] = ctorProps[key]

\* The prop of a tracked option is not shallow-equal to its value at the
\* construction of the component.
ChangedSinceConstruction(key) ==
  ~isShallowEqual(Get(ctorProps, key), Get(props, key))

\* C14 as stated: the map is constructed from the options parsed at the
\* construction of the component, and the first update after the map is
\* created calls, for every tracked option whose current prop value is not
\* shallow-equal to its construction-time value, the setter with the current
\* value (for bounds, the value parsed from it).
C14_ChangesWhileLoadingDelivered ==
  /\ mapCtorCount >= 1 => mapCtorOptions = ctorMapOptions
  /\ patches = 1 =>
       \A key \in TrackedMapOptions :
         ChangedSinceConstruction(key) => CalledOnceWith(key, Get(mapOptions, key))

\* C14 amended: the map is constructed from the options parsed at the
\* construction of the component, and the first update after the map is
\* created calls, for every tracked option other than bounds whose current
\* prop value is not shallow-equal to its construction-time value, the setter
\* once with the current value, except that setCenter is not called when the
\* current center is falsy; when window.AMap was undefined at construction,
\* setBounds is called once with the value parsed from the current bounds prop
\* if that prop is set, and is not called if it is not set.
C14_SetChangesWhileLoadingDelivered ==
  /\ mapCtorCount >= 1 => mapCtorOptions = ctorMapOptions
  /\ patches = 1 =>
       /\ \A key \in TrackedMapOptions \ {"bounds"} :
            ChangedSinceConstruction(key) =>
              IF key = "center" /\ ~Truthy(Get(props, key))
                THEN NotCalled(key)
                ELSE CalledOnceWith(key, Get(props, key))
       /\ ~ctorLibLoaded =>
            IF Get(props, "bounds") # Undef
              THEN /\ CalledOnceWith("bounds", Get(mapOptions, "bounds"))
                   /\ DerivedBounds(Get(mapOptions, "bounds"), Get(props, "bounds"))
              ELSE NotCalled("bounds")

C14_Witness ==
  /\ ~ctorLibLoaded
  /\ lifecycle = "mounted"
  /\ patches = 1
  /\ mapCtorOptions = ctorMapOptions
  /\ mapCtorOptions # parseMapOptions(props, FALSE, gen)
  /\ \E key \in TrackedMapOptions \ {"bounds"} :
       /\ ChangedSinceConstruction(key)
       /\ Get(props, key) # Undef
       /\ Get(mapCtorOptions, key) # Get(props, key)
       /\ CalledOnceWith(key, Get(props, key))
===========================================================================
